---- MODULE Spec2Model ----
(***************************************************************************)
(* Model of the resumable crawler of epfl-hierarchical-scraper.js:         *)
(* CrawlerState (visited / toVisit / failed and its state file),           *)
(* crawlPage, CrawlerPool (processQueue / processNext / finalizeRun,       *)
(* browser lifecycle) and main.                                            *)
(*                                                                         *)
(* Scheduling follows the Node event loop: a continuation that follows an  *)
(* await on an already settled promise is a microtask (queue micro); the   *)
(* completions of real I/O, timers and signals are macrotasks and run only *)
(* when the microtask queue is empty.                                      *)
(***************************************************************************)
EXTENDS Integers, Sequences, FiniteSets, Bags, TLC

\* ---------------------------------------------------------------- bounds
NumPages == 2              \* distinct in-scope pages of the site
MaxConcurrency == 2        \* pool widths 1..MaxConcurrency are explored
MaxRuns == 2               \* process starts (first run + resumes)
MaxLinks == 1              \* links extracted from one page

\* config.crawling (15, 100000 and 100 in the source), scaled down
maxDepth == 2
maxPages == 2
relaunchBrowserAfterPages == 2

\* ------------------------------------------------------------------ URLs
\* A URL string is modelled by its parts.  scope stands for the prefix of
\* the string ("root": starts with a configured root URL), ext for the
\* extension of the last path segment, hash for the fragment (0: none),
\* query for the ordered list of <<name, value>> parameters.
\* logout: the path holds /logout, /signout or /deconnexion.
Page(i) == [valid |-> TRUE, scope |-> "root", path |-> i, ext |-> "",
            logout |-> FALSE, query |-> <<>>, hash |-> 0]
NoUrl == [valid |-> FALSE, scope |-> "null", path |-> 0, ext |-> "",
          logout |-> FALSE, query |-> <<>>, hash |-> 0]

\* the anchors a page of the site may carry
Hrefs == {Page(i) : i \in 1..NumPages} \cup {[Page(1) EXCEPT !.hash = 1]}

RECURSIVE InsertByName(_, _)
InsertByName(sorted, kv) ==
  IF sorted = <<>> THEN <<kv>>
  ELSE IF kv[1] < Head(sorted)[1] THEN <<kv>> \o sorted
       ELSE <<Head(sorted)>> \o InsertByName(Tail(sorted), kv)

RECURSIVE SortParams(_)
\* URLSearchParams.sort(): stable sort by parameter name
SortParams(q) ==
  IF q = <<>> THEN <<>>
  ELSE InsertByName(SortParams(SubSeq(q, 1, Len(q) - 1)), q[Len(q)])

normalizeUrl(u) ==
  IF ~u.valid THEN u
  ELSE [u EXCEPT !.hash = 0, !.query = SortParams(@)]

isUnderRootUrl(u) == normalizeUrl(u).scope = "root"

\* excludePatterns, tested on the URL string: the three extension patterns
\* are anchored at the end of the string, the path patterns are not
\* (mailto: and tel: links are dropped by extractLinksFromPage)
isExcludedByPattern(u) ==
  \/ u.ext \in {"jpg", "mp4", "mp3"} /\ u.query = <<>> /\ u.hash = 0
  \/ u.logout

isAllowedUrl(u) == u.valid /\ isUnderRootUrl(u) /\ ~isExcludedByPattern(u)

isDownloadableFile(u) == u.ext \in {"pdf"}

\* ----------------------------------------------------------- CrawlerState
EmptyState == [visited |-> {}, toVisit |-> <<>>, failed |-> {}]

QueuedUrls(st) == {st.toVisit[i].url : i \in 1..Len(st.toVisit)}
FailedUrls(st) == {f.url : f \in st.failed}

\* mutant of addUrl: a URL that is already queued is queued again
addUrlQueuedAgain(st, url, referrer, currentDepth) ==
  LET normalized == normalizeUrl(url) IN
  IF normalized = NoUrl THEN st
  ELSE IF normalized \in st.visited THEN st
  ELSE [st EXCEPT !.toVisit = Append(@, [url |-> normalized,
                                          referrer |-> referrer,
                                          depth |-> currentDepth])]

\* mutant of addUrl: the new entry is put in front of the older ones
addUrlInFront(st, url, referrer, currentDepth) ==
  LET normalized == normalizeUrl(url) IN
  IF normalized = NoUrl THEN st
  ELSE IF normalized \in st.visited \/ normalized \in QueuedUrls(st) THEN st
  ELSE [st EXCEPT !.toVisit = <<[url |-> normalized,
                                 referrer |-> referrer,
                                 depth |-> currentDepth]>> \o @]

\* (NoUrl is the empty string or null: the only values line 226 drops)
addUrl(st, url, referrer, currentDepth) ==
  LET normalized == normalizeUrl(url) IN
  IF normalized = NoUrl THEN st
  ELSE IF normalized \in st.visited \/ normalized \in QueuedUrls(st) THEN st
  ELSE [st EXCEPT !.toVisit = Append(@, [url |-> normalized,
                                          referrer |-> referrer,
                                          depth |-> currentDepth])]

markVisited(st, url) == [st EXCEPT !.visited = @ \cup {normalizeUrl(url)}]

\* mutant of markFailed: a list of records, the older ones are kept
markFailedKeepsOlder(st, url, error, referrer) ==
  [st EXCEPT !.failed = @ \cup {[url |-> normalizeUrl(url), error |-> error,
                                 referrer |-> referrer]}]

\* mutant of markFailed: the failure is not recorded
markFailedNotRecorded(st, url, error, referrer) == st

markFailed(st, url, error, referrer) ==
  LET normalized == normalizeUrl(url) IN
  [st EXCEPT !.failed = {f \in @ : f.url # normalized} \cup
       {[url |-> normalized, error |-> error, referrer |-> referrer]}]

\* mutant of on404: the page is also marked visited
on404AlsoVisited(st, e) ==
  markVisited(markFailed(st, e.url, "404 Not Found", e.referrer), e.url)

\* crawlPage on a response with status 404
on404(st, e) == markFailed(st, e.url, "404 Not Found", e.referrer)

\* crawlPage on a response with another status >= 400
onHttpError(st, e) == markFailed(st, e.url, "HTTP status", e.referrer)

\* the catch block of crawlPage
onThrow(st, e) == markFailed(st, e.url, "thrown", e.referrer)

\* the catch block of crawlPage on the error authenticateEPFL rethrows
onAuthFail(st, e) == markFailed(st, e.url, "authentication", e.referrer)

\* Array.from(set): its elements, one after the other
RECURSIVE ArrayFrom(_)
ArrayFrom(S) ==
  IF S = {} THEN <<>>
  ELSE LET x == CHOOSE y \in S : TRUE IN <<x>> \o ArrayFrom(S \ {x})

\* mutant of toJSON: only the keys of toVisit are written
toJSONKeysOnly(st) ==
  [visited |-> ArrayFrom(st.visited),
   toVisit |-> [i \in 1..Len(st.toVisit) |->
                  <<st.toVisit[i].url, [referrer |-> NoUrl, depth |-> 0]>>],
   failed  |-> LET a == ArrayFrom(st.failed)
               IN [i \in 1..Len(a) |->
                     <<a[i].url, [error |-> a[i].error,
                                  referrer |-> a[i].referrer]>>]]

\* the document save() writes: the Set as an array, each Map as the array
\* of its [key, value] pairs in insertion order
toJSON(st) ==
  [visited |-> ArrayFrom(st.visited),
   toVisit |-> [i \in 1..Len(st.toVisit) |->
                  <<st.toVisit[i].url, [referrer |-> st.toVisit[i].referrer,
                                        depth |-> st.toVisit[i].depth]>>],
   failed  |-> LET a == ArrayFrom(st.failed)
               IN [i \in 1..Len(a) |->
                     <<a[i].url, [error |-> a[i].error,
                                  referrer |-> a[i].referrer]>>]]

\* new Map(pairs) for toVisit: a key that comes again keeps its place and
\* takes the later value
RECURSIVE newToVisit(_, _)
newToVisit(pairs, m) ==
  IF pairs = <<>> THEN m
  ELSE LET k == Head(pairs)[1]
           rec == [url |-> k, referrer |-> Head(pairs)[2].referrer,
                   depth |-> Head(pairs)[2].depth]
       IN newToVisit(Tail(pairs),
            IF \E i \in 1..Len(m) : m[i].url = k
            THEN [i \in 1..Len(m) |-> IF m[i].url = k THEN rec ELSE m[i]]
            ELSE Append(m, rec))

\* new Map(pairs) for failed
RECURSIVE newFailed(_, _)
newFailed(pairs, m) ==
  IF pairs = <<>> THEN m
  ELSE LET k == Head(pairs)[1]
       IN newFailed(Tail(pairs),
            {f \in m : f.url # k} \cup
            {[url |-> k, error |-> Head(pairs)[2].error,
              referrer |-> Head(pairs)[2].referrer]})

\* what load() builds from the document it read
fromJSON(doc) ==
  [visited |-> {doc.visited[i] : i \in 1..Len(doc.visited)},
   toVisit |-> newToVisit(doc.toVisit, <<>>),
   failed  |-> newFailed(doc.failed, {})]

\* the state file: absent, a complete JSON document, or the truncated /
\* partly written document an interrupted writeFileSync leaves behind
MissingFile == [kind |-> "missing", content |-> toJSON(EmptyState)]
PartialFile == [kind |-> "partial", content |-> toJSON(EmptyState)]
save(st) == [kind |-> "state", content |-> toJSON(st)]

RECURSIVE addAll(_, _, _, _)
addAll(st, urls, referrer, depth) ==
  IF urls = <<>> THEN st
  ELSE addAll(addUrl(st, Head(urls), referrer, depth), Tail(urls), referrer, depth)


\* ------------------------------------------------------------- variables
VARIABLES
  pc,           \* position of main: boot, launching, running, closeBrowser, done, dead
  runs,         \* number of process starts so far
  concurrency,  \* config.crawling.concurrentPages of this deployment
  rootUrls,     \* config.rootUrls of this deployment
  pageCap,      \* config.crawling.maxPages of this deployment
  state,        \* the CrawlerState object: visited, toVisit, failed
  disk,         \* crawler_state.json
  pool,         \* the CrawlerPool object
  glob,         \* pagesSinceLastBrowserLaunch, lastBrowserLaunchTime (aged)
  micro,        \* pending microtasks, oldest first
  workers,      \* bag of the processNext invocations suspended on I/O or a timer
  loadResult,   \* what CrawlerState.load found in this process
  page,         \* one crawlPage call followed step by step: its locals
  files,        \* the artifact directory of that page
  argv,         \* generate-reindex-manifest.js: the old and the new directory
  manifest,     \* generate-reindex-manifest.js: the manifest it writes
  urls,         \* two URL strings given to normalizeUrl
  normalized    \* what normalizeUrl returned for them

vars == <<pc, runs, concurrency, rootUrls, pageCap, state, disk, pool, glob, micro,
          workers, loadResult, page, files, argv, manifest, urls, normalized>>

\* the variables of the single page fetch and of the two pure programs,
\* which the steps of the pool leave alone
PageVars == <<page, files>>
ToolVars == <<argv, manifest, urls, normalized>>
Elsewhere == <<PageVars, ToolVars>>

NoEntry == [url |-> NoUrl, referrer |-> NoUrl, depth |-> 0]
Idle == [pc |-> "idle", entry |-> NoEntry, outcome |-> "none"]

NewPool == [activeCrawlers |-> 0, browser |-> "null", shouldStop |-> FALSE,
            finalizing |-> FALSE, onFinishedCallback |-> FALSE,
            resolved |-> FALSE]
NewGlob == [pagesSinceLastBrowserLaunch |-> 0, aged |-> FALSE]

RootChoices == {[i \in 1..n |-> Page(i)] : n \in 1..NumPages}
LinkLists == UNION {[1..m -> Hrefs] : m \in 0..MaxLinks}

\* ----------------------------------------------------------- CrawlerPool
\* The operators below work on k = [p |-> pool object, q |-> microtask queue].

needsBrowserRestart(p, g) ==
  \/ p.browser # "connected"
  \/ g.pagesSinceLastBrowserLaunch >= relaunchBrowserAfterPages
  \/ g.aged

\* mutant of finalizeRun: the latch is set but the callback is not called
finalizeRunLatchOnly(k) ==
  IF ~k.p.finalizing
  THEN [k EXCEPT !.p.finalizing = TRUE]
  ELSE k

finalizeRun(k) ==
  IF ~k.p.finalizing
  THEN [k EXCEPT !.p.finalizing = TRUE,
                 !.p.resolved = @ \/ k.p.onFinishedCallback]
  ELSE k

\* activeCrawlers--; if (activeCrawlers === 0) finalizeRun()
leaveAndFinalize(k) ==
  LET k1 == [k EXCEPT !.p.activeCrawlers = @ - 1] IN
  IF k1.p.activeCrawlers = 0 THEN finalizeRun(k1) ELSE k1

\* processNext up to its first await (the call of needsBrowserRestart)
processNextStart(k, g) ==
  IF k.p.shouldStop THEN leaveAndFinalize(k)
  ELSE [k EXCEPT !.q = Append(@, [kind |-> "processNext",
                                  r |-> needsBrowserRestart(k.p, g)])]

\* mutant of processQueueLoop: the width test is off by one
RECURSIVE processQueueLoopOffByOne(_, _, _)
processQueueLoopOffByOne(k, g, st) ==
  IF k.p.activeCrawlers <= concurrency /\ Len(st.toVisit) > 0 /\ ~k.p.shouldStop
  THEN IF Cardinality(st.visited) >= pageCap
       THEN [k EXCEPT !.p.shouldStop = TRUE]
       ELSE processQueueLoopOffByOne(
              processNextStart([k EXCEPT !.p.activeCrawlers = @ + 1], g), g, st)
  ELSE k

RECURSIVE processQueueLoop(_, _, _)
processQueueLoop(k, g, st) ==
  IF k.p.activeCrawlers < concurrency /\ Len(st.toVisit) > 0 /\ ~k.p.shouldStop
  THEN IF Cardinality(st.visited) >= pageCap
       THEN [k EXCEPT !.p.shouldStop = TRUE]
       ELSE processQueueLoop(
              processNextStart([k EXCEPT !.p.activeCrawlers = @ + 1], g), g, st)
  ELSE k

\* mutant of runIsOver: the test for remaining workers is dropped
runIsOverAnyWorker(k, st) ==
  k.p.shouldStop \/ Len(st.toVisit) = 0

runIsOver(k, st) ==
  k.p.activeCrawlers = 0 /\ (k.p.shouldStop \/ Len(st.toVisit) = 0)

processQueue(k, g, st) ==
  LET k1 == processQueueLoop(k, g, st) IN
  IF runIsOver(k1, st) THEN finalizeRun(k1) ELSE k1

\* mutant of afterCrawlPage: a completion does not dispatch the next entry
afterCrawlPageNoDispatch(k, g, st) ==
  LET k1 == [k EXCEPT !.p.activeCrawlers = @ - 1] IN
  IF runIsOver(k1, st) THEN finalizeRun(k1) ELSE k1

\* the finally callback behind crawlPage(...) in processNext
afterCrawlPage(k, g, st) ==
  LET k1 == [k EXCEPT !.p.activeCrawlers = @ - 1] IN
  IF ~k1.p.shouldStop /\ k1.p.activeCrawlers < concurrency
  THEN processQueue(k1, g, st)
  ELSE IF runIsOver(k1, st) THEN finalizeRun(k1) ELSE k1

\* processNext after the 5 s wait for a browser another worker should relaunch
afterWait(k, g, st) ==
  LET k1 == [k EXCEPT !.p.activeCrawlers = @ - 1] IN
  IF k1.p.activeCrawlers < concurrency THEN processQueue(k1, g, st) ELSE k1

\* crawlPage up to its first await: the two guards, then browser.newPage()
crawlPageStart(k, st, e) ==
  IF e.depth > maxDepth \/ Cardinality(st.visited) >= pageCap
  THEN [k |-> [k EXCEPT !.q = Append(@, [kind |-> "finally", r |-> FALSE])],
        st |-> st, wk |-> Idle]
  ELSE [k |-> k, st |-> st,
        wk |-> [pc |-> "newPage", entry |-> e, outcome |-> "none"]]

\* processNext from the visited-cap check on
fromCapCheck(k, st) ==
  IF Cardinality(st.visited) >= pageCap
  THEN [k |-> leaveAndFinalize([k EXCEPT !.p.shouldStop = TRUE]),
        st |-> st, wk |-> Idle]
  ELSE IF Len(st.toVisit) = 0       \* getNextUrl() returned null
  THEN [k |-> leaveAndFinalize(k), st |-> st, wk |-> Idle]
  ELSE crawlPageStart(k, [st EXCEPT !.toVisit = Tail(@)], Head(st.toVisit))

\* launchBrowser up to its await: the current browser is closed
launching(k, site) ==
  [k |-> [k EXCEPT !.p.browser = "null"],
   wk |-> [pc |-> site, entry |-> NoEntry, outcome |-> "none"]]

\* processNext from the connectivity check on
fromConnectedCheck(k, st) ==
  IF k.p.browser # "connected"
  THEN IF k.p.activeCrawlers = 0
       THEN [k |-> launching(k, "launch697").k, st |-> st,
             wk |-> launching(k, "launch697").wk]
       ELSE [k |-> k, st |-> st,
             wk |-> [pc |-> "sleep", entry |-> NoEntry, outcome |-> "none"]]
  ELSE fromCapCheck(k, st)

\* mutant of mayRelaunch: the relaunch does not wait for the pool to drain
mayRelaunchAnyTime(p) == p.activeCrawlers >= 0

\* may this processNext relaunch the browser now
mayRelaunch(p) == p.activeCrawlers = 0

\* processNext resumed after await needsBrowserRestart() returned r
processNextResume(k, st, r) ==
  IF r /\ mayRelaunch(k.p)
  THEN [k |-> launching(k, "launch692").k, st |-> st,
        wk |-> launching(k, "launch692").wk]
  ELSE fromConnectedCheck(k, st)


\* ------------------------------------------------- single page, programs
NoFiles == [dir |-> FALSE, html |-> FALSE, docs |-> {}, metadata |-> <<>>]
\* authenticateEPFL: its position, what page.url() is, isAlreadyLoggedIn, and
\* where the page was when the wait of lines 375-385 returned ("none": it
\* did not return); how the last step of the flow went, and whether one of
\* the try blocks of lines 315-372 caught an error
NoAuth == [pc |-> "none", loc |-> "requested", isAlreadyLoggedIn |-> FALSE,
           checkedAt |-> "none", last |-> "none", caught |-> FALSE]
NoPage == [pc |-> "none", entry |-> NoEntry, before |-> EmptyState,
           status |-> 0, outcome |-> "none", allLinks |-> <<>>, htmlLinks |-> <<>>,
           documentLinks |-> <<>>, downloadedFiles |-> <<>>, attempts |-> <<>>,
           auth |-> NoAuth]
NoDir == [exists |-> FALSE, files |-> <<>>]
NoArgv == [oldDir |-> NoDir, newDir |-> NoDir]
NoSummary == [added |-> 0, changed |-> 0, unchanged |-> 0, removed |-> 0]
NoManifest == [written |-> FALSE, summary |-> NoSummary, pages |-> <<>>]

NoPageFetch == page = NoPage /\ files = NoFiles
NoTools ==
  /\ argv = NoArgv
  /\ manifest = NoManifest
  /\ urls = <<>>
  /\ normalized = <<>>

\* ------------------------------------------------------------------ Init
Init ==
  /\ pc = "boot"
  /\ runs = 1
  /\ concurrency \in 1..MaxConcurrency
  /\ rootUrls \in RootChoices
  /\ pageCap = maxPages
  /\ state = EmptyState
  /\ disk = MissingFile
  /\ pool = NewPool
  /\ glob = NewGlob
  /\ micro = <<>>
  /\ workers = EmptyBag
  /\ loadResult = "none"
  /\ NoPageFetch
  /\ NoTools

Config == <<concurrency, rootUrls, pageCap>>

K == [p |-> pool, q |-> micro]

One(wk) == SetToBag({wk})
Workers == BagToSet(workers)

\* ws with the processNext wk suspended in it (unless wk has returned)
Park(ws, wk) == IF wk.pc = "idle" THEN ws ELSE ws (+) One(wk)

\* the process is gone: its memory with it
Dead ==
  /\ pc' = "dead"
  /\ state' = EmptyState
  /\ pool' = NewPool
  /\ glob' = NewGlob
  /\ micro' = <<>>
  /\ workers' = EmptyBag
  /\ loadResult' = "none"

\* ------------------------------------------------------------------ main
\* CrawlerState.load
load(d) ==
  IF d.kind = "state" THEN fromJSON(d.content) ELSE EmptyState

\* ghost: which case of load this process went through
loadOutcome(d) ==
  CASE d.kind = "missing" -> "missing"
    [] d.kind = "partial" -> "corrupt"
    [] load(d).toVisit = <<>> /\ load(d).visited # {} -> "drained"
    [] OTHER              -> "loaded"

mustSeed(st) == Len(st.toVisit) = 0 /\ st.visited = {}

\* main from its start to the await of launchBrowser inside pool.run()
MainStart ==
  /\ pc = "boot"
  /\ LET loaded == load(disk)
         seeded == IF mustSeed(loaded) THEN addAll(loaded, rootUrls, NoUrl, 0)
                   ELSE loaded
     IN /\ state' = seeded
        /\ disk' = IF mustSeed(loaded) THEN save(seeded) ELSE disk
        /\ loadResult' = loadOutcome(disk)
  /\ pool' = NewPool
  /\ glob' = NewGlob
  /\ micro' = <<>>
  /\ workers' = EmptyBag
  /\ pc' = "launching"
  /\ UNCHANGED <<runs, Config, Elsewhere>>

\* the callers of launchBrowser that wait for puppeteer.launch()
MainLauncher == [pc |-> "main", entry |-> NoEntry, outcome |-> "none"]
Launchers ==
  (IF pc = "launching" THEN {MainLauncher} ELSE {}) \cup
  {wk \in Workers : wk.pc \in {"launch692", "launch697"}}

\* puppeteer.launch() resolved: the rest of launchBrowser, then its caller
LaunchDoneAt(who) ==
  /\ who \in Launchers
  /\ micro = <<>>
  /\ LET g1 == NewGlob
         k0 == [K EXCEPT !.p.browser = "connected"]
     IN /\ glob' = g1
        /\ IF who = MainLauncher
           THEN \* run(): processQueue(); return new Promise(...)
                LET k1 == processQueue(k0, g1, state)
                    k2 == [k1 EXCEPT !.p.onFinishedCallback = TRUE]
                    k3 == IF runIsOver(k2, state) THEN finalizeRun(k2) ELSE k2
                IN /\ pool' = k3.p
                   /\ micro' = k3.q
                   /\ pc' = "running"
                   /\ UNCHANGED <<state, workers>>
           ELSE LET res == IF who.pc = "launch692"
                           THEN fromConnectedCheck(k0, state)
                           ELSE fromCapCheck(k0, state)
                IN /\ pool' = res.k.p
                   /\ micro' = res.k.q
                   /\ state' = res.st
                   /\ workers' = Park(workers (-) One(who), res.wk)
                   /\ pc' = pc
  /\ UNCHANGED <<runs, Config, Elsewhere, disk, loadResult>>

\* await pool.run() returned: close the browser if there is one
MainResume ==
  /\ pc = "running"
  /\ pool.resolved
  /\ micro = <<>>
  /\ IF pool.browser = "connected"
     THEN /\ pc' = "closeBrowser"
          /\ disk' = disk
     ELSE /\ pc' = "done"
          /\ disk' = save(state)
  /\ UNCHANGED <<runs, Config, Elsewhere, state, pool, glob, micro, workers, loadResult>>

\* browser.close() returned: final state.save() and summary.json
MainFinish ==
  /\ pc = "closeBrowser"
  /\ micro = <<>>
  /\ pool' = [pool EXCEPT !.browser = "null"]
  /\ disk' = save(state)
  /\ pc' = "done"
  /\ UNCHANGED <<runs, Config, Elsewhere, state, glob, micro, workers, loadResult>>

\* ------------------------------------------------------------ microtasks
RunMicrotask ==
  /\ pc \in {"running", "closeBrowser"}
  /\ micro # <<>>
  /\ LET e == Head(micro)
         k0 == [p |-> pool, q |-> Tail(micro)]
     IN IF e.kind = "processNext"
        THEN LET res == processNextResume(k0, state, e.r)
             IN /\ pool' = res.k.p
                /\ micro' = res.k.q
                /\ state' = res.st
                /\ workers' = Park(workers, res.wk)
        ELSE LET k1 == afterCrawlPage(k0, glob, state)
             IN /\ pool' = k1.p
                /\ micro' = k1.q
                /\ UNCHANGED <<state, workers>>
  /\ UNCHANGED <<pc, runs, Config, Elsewhere, disk, glob, loadResult>>

\* ------------------------------------------------------------- crawlPage
AtWorker(wk, where) ==
  /\ pc \in {"running", "closeBrowser"}
  /\ micro = <<>>
  /\ wk \in Workers
  /\ wk.pc = where

\* the finally callback of processNext runs and worker w is gone
Leave(w, st) ==
  LET k1 == afterCrawlPage(K, glob, st)
  IN /\ pool' = k1.p
     /\ micro' = k1.q
     /\ workers' = workers (-) One(w)

NewPageResolveAt(w) ==
  /\ AtWorker(w, "newPage")
  /\ pool.browser = "connected"
  /\ workers' = (workers (-) One(w)) (+) One([w EXCEPT !.pc = "goto"])
  /\ UNCHANGED <<pc, runs, Config, Elsewhere, state, disk, pool, glob, micro, loadResult>>

\* browser.newPage() rejects: thrown before the try block of crawlPage
NewPageRejectAt(w) ==
  /\ AtWorker(w, "newPage")
  /\ pool.browser # "connected"
  /\ Leave(w, state)
  /\ UNCHANGED <<pc, runs, Config, Elsewhere, state, disk, glob, loadResult>>

\* page.goto() returned a response with status < 400: authentication if the
\* page landed on a login URL, then page.content(), link extraction,
\* downloads and page.title(), each of them awaited
GotoOkAt(w) ==
  /\ AtWorker(w, "goto")
  /\ pool.browser = "connected"
  /\ workers' = (workers (-) One(w)) (+) One([w EXCEPT !.pc = "extract"])
  /\ UNCHANGED <<pc, runs, Config, Elsewhere, state, disk, pool, glob, micro, loadResult>>

\* page.goto() returned a response with status < 400 and the page landed on
\* a login URL (needsAuth): crawlPage calls authenticateEPFL
GotoLoginAt(w) ==
  /\ AtWorker(w, "goto")
  /\ pool.browser = "connected"
  /\ workers' = (workers (-) One(w)) (+) One([w EXCEPT !.pc = "auth"])
  /\ UNCHANGED <<pc, runs, Config, Elsewhere, state, disk, pool, glob, micro, loadResult>>

\* authenticateEPFL returned
AuthOkAt(w) ==
  /\ AtWorker(w, "auth")
  /\ pool.browser = "connected"
  /\ workers' = (workers (-) One(w)) (+) One([w EXCEPT !.pc = "extract"])
  /\ UNCHANGED <<pc, runs, Config, Elsewhere, state, disk, pool, glob, micro, loadResult>>

Settle(w, st, outcome) ==
  /\ state' = st
  /\ workers' = (workers (-) One(w)) (+)
                One([w EXCEPT !.pc = "closing", !.outcome = outcome])

isHtmlLink(l) == ~isDownloadableFile(l) /\ isAllowedUrl(l)

bumpPages(g) ==
  [g EXCEPT !.pagesSinceLastBrowserLaunch =
      IF @ < relaunchBrowserAfterPages THEN @ + 1 ELSE @]

\* mutant of enqueueLinks: the depth of the page is not tested
enqueueLinksAnyDepth(st, htmlLinks, e) ==
  addAll(st, htmlLinks, e.url, e.depth + 1)

\* the links of a successful page that crawlPage adds to the queue
enqueueLinks(st, htmlLinks, e) ==
  IF e.depth < maxDepth THEN addAll(st, htmlLinks, e.url, e.depth + 1) ELSE st

\* the synchronous end of the try block: markVisited, enqueue, save
OutcomeSuccessAt(w, allLinks) ==
  /\ AtWorker(w, "extract")
  /\ pool.browser = "connected"
  /\ LET e == w.entry
         htmlLinks == SelectSeq(allLinks, isHtmlLink)
         st1 == markVisited(state, e.url)
         st2 == enqueueLinks(st1, htmlLinks, e)
     IN /\ Settle(w, st2, "visited")
        /\ disk' = save(st2)
  /\ glob' = bumpPages(glob)
  /\ UNCHANGED <<pc, runs, Config, Elsewhere, pool, micro, loadResult>>

Outcome404At(w) ==
  /\ AtWorker(w, "goto")
  /\ pool.browser = "connected"
  /\ LET e == w.entry
         st1 == on404(state, e)
     IN /\ Settle(w, st1, "failed")
        /\ disk' = disk      \* this branch returns without state.save()
  /\ UNCHANGED <<pc, runs, Config, Elsewhere, pool, glob, micro, loadResult>>

OutcomeHttpErrorAt(w) ==
  /\ AtWorker(w, "goto")
  /\ pool.browser = "connected"
  /\ LET e == w.entry
         st1 == onHttpError(state, e)
     IN /\ Settle(w, st1, "failed")
        /\ disk' = disk      \* this branch returns without state.save()
  /\ UNCHANGED <<pc, runs, Config, Elsewhere, pool, glob, micro, loadResult>>

\* anything thrown inside the try block: navigation, authentication, I/O
OutcomeThrowAt(w) ==
  /\ \/ AtWorker(w, "goto")
     \/ AtWorker(w, "extract")
  /\ LET e == w.entry
         st1 == onThrow(state, e)
     IN /\ Settle(w, st1, "failed")
        /\ disk' = save(st1)
  /\ UNCHANGED <<pc, runs, Config, Elsewhere, pool, glob, micro, loadResult>>

\* authenticateEPFL threw: caught by the catch block of crawlPage
AuthFailAt(w) ==
  /\ AtWorker(w, "auth")
  /\ LET e == w.entry
         st1 == onAuthFail(state, e)
     IN /\ Settle(w, st1, "failed")
        /\ disk' = save(st1)
  /\ UNCHANGED <<pc, runs, Config, Elsewhere, pool, glob, micro, loadResult>>

\* the finally block of crawlPage closed the page; crawlPage returns
ClosePageAt(w) ==
  /\ AtWorker(w, "closing")
  /\ Leave(w, state)
  /\ UNCHANGED <<pc, runs, Config, Elsewhere, state, disk, glob, loadResult>>

\* the 5 s timer of a processNext that found no browser
SleepWakeAt(w) ==
  /\ AtWorker(w, "sleep")
  /\ LET k1 == afterWait(K, glob, state)
     IN /\ pool' = k1.p
        /\ micro' = k1.q
  /\ workers' = workers (-) One(w)
  /\ UNCHANGED <<pc, runs, Config, Elsewhere, state, disk, glob, loadResult>>

\* ----------------------------------------------------------- environment
\* SIGINT: pool.stop()
Stop ==
  /\ pc \in {"launching", "running", "closeBrowser"}
  /\ micro = <<>>
  /\ ~pool.shouldStop
  /\ pool' = [pool EXCEPT !.shouldStop = TRUE]
  /\ UNCHANGED <<pc, runs, Config, Elsewhere, state, disk, glob, micro, workers, loadResult>>

\* the browser process dies: the 'disconnected' handler clears this.browser
Disconnect ==
  /\ pc \in {"running", "closeBrowser"}
  /\ micro = <<>>
  /\ pool.browser = "connected"
  /\ pool' = [pool EXCEPT !.browser = "null"]
  /\ UNCHANGED <<pc, runs, Config, Elsewhere, state, disk, glob, micro, workers, loadResult>>

\* relaunchBrowserAfterHours have passed since lastBrowserLaunchTime
AgeCeiling ==
  /\ pc = "running"
  /\ micro = <<>>
  /\ pool.browser = "connected"
  /\ ~glob.aged
  /\ glob' = [glob EXCEPT !.aged = TRUE]
  /\ UNCHANGED <<pc, runs, Config, Elsewhere, state, disk, pool, micro, workers, loadResult>>

\* the process is killed between two steps
Kill ==
  /\ pc \in {"launching", "running", "closeBrowser"}
  /\ Dead
  /\ UNCHANGED <<runs, Config, Elsewhere, disk>>

\* a step that calls state.save() is about to run
SaveIsNext ==
  \/ pc = "boot" /\ mustSeed(load(disk))
  \/ pc = "running" /\ pool.resolved /\ micro = <<>> /\ pool.browser # "connected"
  \/ pc = "closeBrowser" /\ micro = <<>>
  \/ \E w \in Workers : AtWorker(w, "goto") \/ AtWorker(w, "auth") \/ AtWorker(w, "extract")

\* the process is killed inside writeFileSync, after the file was truncated
KillInSave ==
  /\ SaveIsNext
  /\ disk' = PartialFile
  /\ Dead
  /\ UNCHANGED <<runs, Config, Elsewhere>>

\* the operator starts the crawler again on the same output directory
Restart ==
  /\ pc \in {"dead", "done"}
  /\ runs < MaxRuns
  /\ runs' = runs + 1
  /\ pc' = "boot"
  /\ UNCHANGED <<Config, Elsewhere, state, disk, pool, glob, micro, workers, loadResult>>

LaunchDone == \E who \in Launchers : LaunchDoneAt(who)
NewPageResolve == \E w \in Workers : NewPageResolveAt(w)
NewPageReject == \E w \in Workers : NewPageRejectAt(w)
GotoOk == \E w \in Workers : GotoOkAt(w)
GotoLogin == \E w \in Workers : GotoLoginAt(w)
AuthOk == \E w \in Workers : AuthOkAt(w)
AuthFail == \E w \in Workers : AuthFailAt(w)
OutcomeSuccess == \E w \in Workers, l \in LinkLists : OutcomeSuccessAt(w, l)
OutcomeSuccessNoLinks == \E w \in Workers : OutcomeSuccessAt(w, <<>>)
Outcome404 == \E w \in Workers : Outcome404At(w)
OutcomeHttpError == \E w \in Workers : OutcomeHttpErrorAt(w)
OutcomeThrow == \E w \in Workers : OutcomeThrowAt(w)
ClosePage == \E w \in Workers : ClosePageAt(w)
SleepWake == \E w \in Workers : SleepWakeAt(w)

Next ==
  \/ MainStart
  \/ LaunchDone
  \/ MainResume
  \/ MainFinish
  \/ RunMicrotask
  \/ NewPageResolve
  \/ NewPageReject
  \/ GotoOk
  \/ OutcomeSuccess
  \/ Outcome404
  \/ OutcomeHttpError
  \/ OutcomeThrow
  \/ ClosePage
  \/ SleepWake
  \/ Stop
  \/ Disconnect
  \/ AgeCeiling
  \/ Kill
  \/ KillInSave
  \/ Restart

Spec == Init /\ [][Next]_vars


\* A site on which every fetch succeeds and finds no link, a browser that
\* stays connected, no signal: the environment of independent entries.
NextQuiet ==
  \/ MainStart
  \/ LaunchDone
  \/ MainResume
  \/ MainFinish
  \/ RunMicrotask
  \/ NewPageResolve
  \/ GotoOk
  \/ OutcomeSuccessNoLinks
  \/ ClosePage
  \/ AgeCeiling

\* the event loop runs every pending continuation; every I/O call returns
QuietFairness ==
  /\ WF_vars(MainStart)
  /\ WF_vars(LaunchDone)
  /\ WF_vars(MainResume)
  /\ WF_vars(MainFinish)
  /\ WF_vars(RunMicrotask)
  /\ WF_vars(NewPageResolve)
  /\ WF_vars(GotoOk)
  /\ WF_vars(OutcomeSuccessNoLinks)
  /\ WF_vars(ClosePage)

SpecQuiet == Init /\ [][NextQuiet]_vars /\ QuietFairness

\* ------------------------------------- crawlPage, one call step by step
MaxPageLinks == 2          \* anchors on the page that is fetched

Outside == [Page(2) EXCEPT !.scope = "other"]
Doc(u) == [u EXCEPT !.ext = "pdf"]
Media(u) == [u EXCEPT !.ext = "jpg"]

\* the anchors of the page: itself, another page (plain, with a fragment,
\* with unsorted parameters), a page of another site, documents, images
\* and the logout link
PageHrefs ==
  {Page(1), Page(2), [Page(2) EXCEPT !.hash = 1],
   [Page(2) EXCEPT !.query = <<<<2, 1>>, <<1, 1>>>>],
   Outside, Doc(Page(2)), Doc(Outside),
   Media(Page(2)), [Media(Page(2)) EXCEPT !.hash = 1],
   [Page(2) EXCEPT !.logout = TRUE]}

PageLinkLists == UNION {[1..m -> PageHrefs] : m \in 0..MaxPageLinks}

\* the CrawlerState the call finds: empty, a page visited, its link already
\* queued, the page cap reached
StartStates ==
  {EmptyState,
   [EmptyState EXCEPT !.visited = {Page(2)}],
   addUrl(EmptyState, Page(2), NoUrl, 0),
   [EmptyState EXCEPT !.visited = {Page(i) : i \in 1..maxPages}]}

\* processNext calls crawlPage(browser, state, urlInfo, depth)
PageCall(st, d) ==
  [NoPage EXCEPT !.pc = "call", !.before = st,
                 !.entry = [url |-> Page(1),
                            referrer |-> IF d = 0 THEN NoUrl ELSE Page(2),
                            depth |-> d]]

PoolIdle ==
  /\ pc = "boot"
  /\ runs = 1
  /\ concurrency = 1
  /\ rootUrls = <<Page(1)>>
  /\ pageCap = maxPages
  /\ pool = [NewPool EXCEPT !.browser = "connected", !.activeCrawlers = 1]
  /\ glob = NewGlob
  /\ micro = <<>>
  /\ workers = EmptyBag
  /\ loadResult = "none"

PoolVars == <<pc, runs, concurrency, rootUrls, pageCap, pool, micro, workers, loadResult>>

InitPage ==
  /\ PoolIdle
  /\ state \in StartStates
  /\ disk = save(state)
  /\ page \in {PageCall(state, d) : d \in 0..(maxDepth + 1)}
  /\ files = NoFiles
  /\ NoTools

At(where) == page.pc = where

\* the two guards, then browser.newPage() and the page settings
PageStart ==
  /\ At("call")
  /\ page' = IF \/ page.entry.depth > maxDepth
                \/ Cardinality(state.visited) >= pageCap
             THEN [page EXCEPT !.pc = "returned", !.outcome = "skipped"]
             ELSE [page EXCEPT !.pc = "goto"]
  /\ UNCHANGED <<PoolVars, ToolVars, state, disk, glob, files>>

PageGoto404 ==
  /\ At("goto")
  /\ state' = on404(state, page.entry)
  /\ page' = [page EXCEPT !.pc = "closing", !.status = 404, !.outcome = "failed"]
  /\ UNCHANGED <<PoolVars, ToolVars, disk, glob, files>>

PageGotoHttpError ==
  /\ At("goto")
  /\ state' = onHttpError(state, page.entry)
  /\ page' = [page EXCEPT !.pc = "closing", !.status = 500, !.outcome = "failed"]
  /\ UNCHANGED <<PoolVars, ToolVars, disk, glob, files>>

\* What page.url() is: the Tequila form (tequila.epfl.ch), the Microsoft
\* form (login.microsoftonline.com), another URL that holds "login.", the URL
\* that was asked for, another page under .epfl.ch, a page of another site.
Locs == {"tequila", "microsoft", "login", "requested", "epfl", "elsewhere"}

needsAuth(l) == l \in {"login", "tequila", "microsoft"}

\* the condition the wait of lines 375-385 polls
onEpflDomain(l) == l \in {"tequila", "requested", "epfl"}

\* mutant of notOnLoginPages: the login hosts are not told apart
notOnLoginPagesAnyHost(l) == l \in Locs

notOnLoginPages(l) == l \notin {"login", "tequila", "microsoft"}

\* status < 400 on a login URL: authenticateEPFL is called (the test of line
\* 260 is false on every URL for which needsAuth is true)
PageGotoLogin ==
  /\ At("goto")
  /\ \E l \in Locs :
       /\ needsAuth(l)
       /\ page' = [page EXCEPT !.pc = "auth", !.status = 200,
                                !.auth = [NoAuth EXCEPT !.pc = "entry", !.loc = l]]
  /\ UNCHANGED <<PoolVars, ToolVars, state, disk, glob, files>>

InAuth(where) == At("auth") /\ page.auth.pc = where

\* an awaited step of authenticateEPFL returned: its locals are a
AuthStep(a) ==
  /\ page' = [page EXCEPT !.auth = a]
  /\ UNCHANGED <<PoolVars, ToolVars, state, disk, glob, files>>

\* the tests of lines 281 and 312 on page.url()
fromTequilaTest(l) ==
  CASE l = "tequila"   -> "tequila"
    [] l = "microsoft" -> "email"
    [] OTHER           -> "check"

\* lines 266-278: the page was asked for the logged-in markers
AuthEntry ==
  /\ InAuth("entry")
  /\ \E b \in BOOLEAN :
       AuthStep([page.auth EXCEPT
                   !.isAlreadyLoggedIn = b,
                   !.pc = IF b THEN "back" ELSE fromTequilaTest(page.auth.loc)])

\* authenticateEPFL throws: its catch block (lines 391-402) rethrows into the
\* catch block of crawlPage
AuthFailed(how) ==
  /\ state' = onAuthFail(state, page.entry)
  /\ disk' = save(state')
  /\ page' = [page EXCEPT !.pc = "closing", !.outcome = "failed",
                           !.auth.last = how]
  /\ UNCHANGED <<PoolVars, ToolVars, glob, files>>

\* mutant of AuthTequila: a failed Tequila step is caught and the flow goes on
\* to the test of line 312
AuthTequilaCaught ==
  /\ InAuth("tequila")
  /\ \E how \in {"clicked", "nofield", "nobutton"}, l \in Locs :
       LET to == IF how = "clicked" THEN l ELSE page.auth.loc
       IN AuthStep([page.auth EXCEPT
                      !.last = how,
                      !.loc = to,
                      !.pc = IF to = "microsoft" THEN "email" ELSE "check"])

\* lines 281-309: #username appeared, the credentials were typed, one of the
\* login buttons was clicked and its navigation completed ("clicked"); or
\* #username did not appear within 15 s (line 284 throws); or none of the
\* three selectors was found and clicked with a completed navigation (line
\* 307 throws)
AuthTequila ==
  /\ InAuth("tequila")
  /\ \E how \in {"clicked", "nofield", "nobutton"}, l \in Locs :
       IF how = "clicked"
       THEN AuthStep([page.auth EXCEPT
                        !.last = how,
                        !.loc = l,
                        !.pc = IF l = "microsoft" THEN "email" ELSE "check"])
       ELSE AuthFailed(how)

\* the optional steps of lines 315-372 in their order
afterMicrosoftStep(step, l) ==
  CASE step = "email"    -> "password"
    [] step = "password" -> "mfa"
    [] step = "mfa"      -> IF l = "microsoft" THEN "kmsi" ELSE "check"
    [] OTHER             -> "check"

MicrosoftSteps == {"email", "password", "mfa", "kmsi"}

\* mutant of AuthMicrosoft: a missing element is an error of the flow
AuthMicrosoftStrict ==
  /\ At("auth")
  /\ page.auth.pc \in MicrosoftSteps
  /\ \E how \in {"absent", "done", "caught"}, l \in Locs :
       IF how = "absent"
       THEN AuthFailed(how)
       ELSE AuthStep([page.auth EXCEPT
                        !.last = how,
                        !.caught = @ \/ how = "caught",
                        !.loc = l,
                        !.pc = afterMicrosoftStep(page.auth.pc, l)])

\* lines 315-372, one of the four steps (e-mail field, password field, MFA
\* wait, stay signed in). "absent": page.$ found no field (lines 315, 329),
\* the MFA texts did not show within 20 s (line 345, caught at line 356), the
\* stay-signed-in button did not show within 15 s (line 362, caught at line
\* 369). "done": the step was submitted, or approved, and its navigation
\* completed. "caught": the step was started and its try block caught an
\* error (a timeout of waitForSelector or of waitForNavigation)
AuthMicrosoft ==
  /\ At("auth")
  /\ page.auth.pc \in MicrosoftSteps
  /\ \E how \in {"absent", "done", "caught"}, l \in Locs :
       LET to == IF how = "absent" THEN page.auth.loc ELSE l
       IN AuthStep([page.auth EXCEPT
                      !.last = how,
                      !.caught = @ \/ how = "caught",
                      !.loc = to,
                      !.pc = afterMicrosoftStep(page.auth.pc, to)])

\* lines 375-389: page.waitForFunction returned within its 60 s
AuthCheck ==
  /\ InAuth("check")
  /\ onEpflDomain(page.auth.loc) /\ notOnLoginPages(page.auth.loc)
  /\ AuthStep([page.auth EXCEPT
                 !.checkedAt = page.auth.loc,
                 !.pc = IF page.auth.loc # "requested" THEN "back" ELSE "done"])

\* lines 274-276 and 387-389: page.goto(currentAttemptUrl) returned
AuthBack ==
  /\ InAuth("back")
  /\ \E l \in Locs :
       AuthStep([page.auth EXCEPT !.loc = l, !.pc = "done"])

\* status < 400, or authenticateEPFL returned (its locals are gone): the
\* wait, the page folder is created, page.content() is called
EnterContent ==
  /\ page' = [page EXCEPT !.pc = "content", !.status = 200, !.auth = NoAuth]
  /\ files' = [files EXCEPT !.dir = TRUE]
  /\ UNCHANGED <<PoolVars, ToolVars, state, disk, glob>>

PageGotoOk == At("goto") /\ EnterContent
\* authenticateEPFL returned
PageAuthOk == InAuth("done") /\ EnterContent

\* page.content() returned: page.html is written, the links are asked for
PageContent ==
  /\ At("content")
  /\ files' = [files EXCEPT !.html = TRUE]
  /\ page' = [page EXCEPT !.pc = "links"]
  /\ UNCHANGED <<PoolVars, ToolVars, state, disk, glob>>

\* extractLinksFromPage returned allLinks: the partition of lines 557-566
PageLinks ==
  /\ At("links")
  /\ \E allLinks \in PageLinkLists :
       LET documentLinks == SelectSeq(allLinks, isDownloadableFile)
       IN page' = [page EXCEPT
                     !.allLinks = allLinks,
                     !.documentLinks = documentLinks,
                     !.htmlLinks = SelectSeq(allLinks, isHtmlLink),
                     !.pc = IF documentLinks = <<>> THEN "title" ELSE "download"]
  /\ UNCHANGED <<PoolVars, ToolVars, state, disk, glob, files>>

\* getSafeFileName: the last segment of the path
getSafeFileName(u) == [path |-> u.path, ext |-> u.ext]

\* how one downloadFile call ends: status 200 and the stream finished; another
\* status; no response before the request timeout; a body that stops coming
\* after the write stream was opened, until the request timeout
DownloadOutcomes == {"ok", "status", "timeout", "stalled"}

WithFile(docs, name, complete) ==
  {f \in docs : f.name # name} \cup {[name |-> name, complete |-> complete]}

\* the files of targetDir after downloadFile(page, u, targetDir)
downloadFile(docs, u, outcome) ==
  CASE outcome = "ok"      -> WithFile(docs, getSafeFileName(u), TRUE)
    [] outcome = "stalled" -> WithFile(docs, getSafeFileName(u), FALSE)
    [] OTHER               -> docs

\* mutant of PageDownload: a download that fails throws into the catch block
\* of crawlPage
PageDownloadThrows ==
  /\ At("download")
  /\ LET i == Len(page.attempts) + 1
         u == page.documentLinks[i]
     IN \E outcome \in DownloadOutcomes :
          /\ files' = [files EXCEPT !.docs = downloadFile(@, u, outcome)]
          /\ state' = IF outcome = "ok" THEN state
                      ELSE onThrow(state, page.entry)
          /\ disk' = IF outcome = "ok" THEN disk ELSE save(state')
          /\ page' = [page EXCEPT
               !.attempts = Append(@, [url |-> u, outcome |-> outcome]),
               !.downloadedFiles =
                  IF outcome = "ok"
                  THEN Append(@, [fileName |-> getSafeFileName(u),
                                  originalUrl |-> u])
                  ELSE @,
               !.outcome = IF outcome = "ok" THEN @ ELSE "failed",
               !.pc = IF outcome # "ok" THEN "closing"
                      ELSE IF i = Len(page.documentLinks) THEN "title"
                      ELSE "download"]
  /\ UNCHANGED <<PoolVars, ToolVars, glob>>

\* one pass of the loop over documentLinks
PageDownload ==
  /\ At("download")
  /\ LET i == Len(page.attempts) + 1
         u == page.documentLinks[i]
     IN \E outcome \in DownloadOutcomes :
          /\ files' = [files EXCEPT !.docs = downloadFile(@, u, outcome)]
          /\ page' = [page EXCEPT
               !.attempts = Append(@, [url |-> u, outcome |-> outcome]),
               !.downloadedFiles =
                  IF outcome = "ok"
                  THEN Append(@, [fileName |-> getSafeFileName(u),
                                  originalUrl |-> u])
                  ELSE @,
               !.pc = IF i = Len(page.documentLinks) THEN "title"
                      ELSE "download"]
  /\ UNCHANGED <<PoolVars, ToolVars, state, disk, glob>>

\* the record written to metadata.json
Metadata(pg) ==
  [url |-> pg.entry.url, depth |-> pg.entry.depth,
   referrer |-> pg.entry.referrer,
   downloadedDocuments |-> pg.downloadedFiles,
   htmlLinks |-> pg.htmlLinks, status |-> pg.status]

\* page.title() returned: metadata.json, then the synchronous end of the
\* try block (markVisited, enqueue, save)
PageFinish ==
  /\ At("title")
  /\ files' = [files EXCEPT !.metadata = <<Metadata(page)>>]
  /\ LET st1 == markVisited(state, page.entry.url)
         st2 == enqueueLinks(st1, page.htmlLinks, page.entry)
     IN /\ state' = st2
        /\ disk' = save(st2)
  /\ glob' = bumpPages(glob)
  /\ page' = [page EXCEPT !.pc = "closing", !.outcome = "visited"]
  /\ UNCHANGED <<PoolVars, ToolVars>>

Caught(st) ==
  /\ state' = st
  /\ disk' = save(st)
  /\ page' = [page EXCEPT !.pc = "closing", !.outcome = "failed"]
  /\ UNCHANGED <<PoolVars, ToolVars, glob, files>>

\* page.goto, page.content, extractLinksFromPage or page.title throws
PageThrow ==
  /\ At("goto") \/ At("content") \/ At("links") \/ At("title")
  /\ Caught(onThrow(state, page.entry))

\* an awaited call of authenticateEPFL outside the Tequila step and outside
\* the try blocks of lines 316-371 threw or timed out: page.evaluate (line
\* 266), page.$ (lines 315, 329), the wait of lines 375-385, page.goto (lines
\* 275, 388)
PageAuthFail ==
  /\ At("auth")
  /\ page.auth.pc \in {"entry", "email", "password", "check", "back"}
  /\ AuthFailed("thrown")

\* the finally block
PageClose ==
  /\ At("closing")
  /\ page' = [page EXCEPT !.pc = "returned"]
  /\ UNCHANGED <<PoolVars, ToolVars, state, disk, glob, files>>

NextPage ==
  \/ PageStart
  \/ PageGoto404
  \/ PageGotoHttpError
  \/ PageGotoLogin
  \/ PageGotoOk
  \/ AuthEntry
  \/ AuthTequila
  \/ AuthMicrosoft
  \/ AuthCheck
  \/ AuthBack
  \/ PageAuthOk
  \/ PageAuthFail
  \/ PageContent
  \/ PageLinks
  \/ PageDownload
  \/ PageFinish
  \/ PageThrow
  \/ PageClose

SpecPage == InitPage /\ [][NextPage]_vars

\* ------------------------------------------ generate-reindex-manifest.js
MaxFiles == 2              \* metadata.json files in one directory tree

\* what findMetadataFiles keeps of a metadata.json: the url and the
\* contentHash (0: no such field, null or empty)
AsRead(md) ==
  [url |-> md.url,
   contentHash |-> IF "contentHash" \in DOMAIN md THEN md.contentHash ELSE 0]

\* the metadata.json crawlPage writes for page i
CrawledFile(i) ==
  AsRead(Metadata([PageCall(EmptyState, 0) EXCEPT !.entry.url = Page(i),
                                                 !.status = 200]))

\* metadata.json files: written by crawlPage, carrying a contentHash, or
\* without a url
MetaFiles ==
  {CrawledFile(i) : i \in 1..NumPages} \cup
  {[url |-> Page(i), contentHash |-> h] : i \in 1..NumPages, h \in 1..2} \cup
  {[url |-> NoUrl, contentHash |-> 1]}

\* a directory tree: its metadata.json files in the order walk meets them
\* (the folder of a file is its position)
Dirs ==
  {NoDir} \cup
  {[exists |-> TRUE, files |-> f] :
     f \in UNION {[1..n -> MetaFiles] : n \in 0..MaxFiles}}

\* mutant of MapSet: a list instead of a Map, every file adds an element
MapSetAppend(m, rec) == Append(m, rec)

\* Map.set: a key that is present keeps its place
MapSet(m, rec) ==
  IF \E i \in 1..Len(m) : m[i].url = rec.url
  THEN [i \in 1..Len(m) |-> IF m[i].url = rec.url THEN rec ELSE m[i]]
  ELSE Append(m, rec)

MapHas(m, url) == \E i \in 1..Len(m) : m[i].url = url
MapGet(m, url) == m[CHOOSE i \in 1..Len(m) : m[i].url = url]

RECURSIVE walk(_, _, _)
walk(fs, i, results) ==
  IF i > Len(fs) THEN results
  ELSE walk(fs, i + 1,
            IF fs[i].url.valid
            THEN MapSet(results, [url |-> fs[i].url,
                                  contentHash |-> fs[i].contentHash,
                                  folderPath |-> i])
            ELSE results)

findMetadataFiles(dir) ==
  IF ~dir.exists THEN <<>> ELSE walk(dir.files, 1, <<>>)

Entry(url, status, reason, reindex, meta) ==
  [url |-> url, status |-> status, reason |-> reason, reindex |-> reindex,
   folderPath |-> meta.folderPath]

\* mutant of classify: hashes are compared before their presence is tested
classifyHashesFirst(oldPages, newMeta) ==
  LET url == newMeta.url IN
  IF ~MapHas(oldPages, url)
  THEN Entry(url, "added", "", TRUE, newMeta)
  ELSE LET oldMeta == MapGet(oldPages, url) IN
       IF newMeta.contentHash # oldMeta.contentHash
       THEN Entry(url, "changed", "", TRUE, newMeta)
       ELSE IF newMeta.contentHash = 0 \/ oldMeta.contentHash = 0
       THEN Entry(url, "changed", "no_hash_available", TRUE, newMeta)
       ELSE Entry(url, "unchanged", "", FALSE, newMeta)

\* the body of the loop over the new pages
classify(oldPages, newMeta) ==
  LET url == newMeta.url IN
  IF ~MapHas(oldPages, url)
  THEN Entry(url, "added", "", TRUE, newMeta)
  ELSE LET oldMeta == MapGet(oldPages, url) IN
       IF newMeta.contentHash = 0 \/ oldMeta.contentHash = 0
       THEN Entry(url, "changed", "no_hash_available", TRUE, newMeta)
       ELSE IF newMeta.contentHash # oldMeta.contentHash
       THEN Entry(url, "changed", "", TRUE, newMeta)
       ELSE Entry(url, "unchanged", "", FALSE, newMeta)

\* mutant of push: only changed entries are counted
pushCountsChanged(m, entry) ==
  [m EXCEPT !.pages = Append(@, entry),
            !.summary[entry.status] = IF entry.status = "changed" THEN @ + 1
                                      ELSE @]

\* manifest.pages.push(entry); manifest.summary[entry.status]++
push(m, entry) ==
  [m EXCEPT !.pages = Append(@, entry),
            !.summary[entry.status] = @ + 1]

RECURSIVE checkNew(_, _, _, _)
checkNew(m, oldPages, newPages, i) ==
  IF i > Len(newPages) THEN m
  ELSE checkNew(push(m, classify(oldPages, newPages[i])),
                oldPages, newPages, i + 1)

RECURSIVE checkRemoved(_, _, _, _)
checkRemoved(m, oldPages, newPages, i) ==
  IF i > Len(oldPages) THEN m
  ELSE checkRemoved(
         IF ~MapHas(newPages, oldPages[i].url)
         THEN push(m, Entry(oldPages[i].url, "removed", "", FALSE, oldPages[i]))
         ELSE m,
         oldPages, newPages, i + 1)

\* the crawler and the single page fetch are not running
NoCrawl ==
  /\ pc = "boot"
  /\ runs = 1
  /\ concurrency = 1
  /\ rootUrls = <<Page(1)>>
  /\ pageCap = maxPages
  /\ state = EmptyState
  /\ disk = MissingFile
  /\ pool = NewPool
  /\ glob = NewGlob
  /\ micro = <<>>
  /\ workers = EmptyBag
  /\ loadResult = "none"
  /\ NoPageFetch

CrawlVars == <<pc, runs, concurrency, rootUrls, pageCap, state, disk, pool, glob, micro,
               workers, loadResult, page, files>>

InitManifest ==
  /\ NoCrawl
  /\ argv \in [oldDir : Dirs, newDir : Dirs]
  /\ manifest = NoManifest
  /\ urls = <<>>
  /\ normalized = <<>>

\* the whole script: both trees are read, the two loops, the file is written
Generate ==
  /\ ~manifest.written
  /\ LET oldPages == findMetadataFiles(argv.oldDir)
         newPages == findMetadataFiles(argv.newDir)
         m1 == checkNew(NoManifest, oldPages, newPages, 1)
         m2 == checkRemoved(m1, oldPages, newPages, 1)
     IN manifest' = [m2 EXCEPT !.written = TRUE]
  /\ UNCHANGED <<CrawlVars, argv, urls, normalized>>

NextManifest == Generate

SpecManifest == InitManifest /\ [][NextManifest]_vars

\* ----------------------------------------------------------- normalizeUrl
MaxParams == 2             \* query parameters of one URL string

Params == {<<name, value>> : name \in 1..2, value \in 1..2}
Queries == UNION {[1..n -> Params] : n \in 0..MaxParams}

\* URL strings: a page with any query and with or without a fragment, a
\* string new URL() rejects, and the empty string
UrlStrings ==
  {[Page(1) EXCEPT !.query = q, !.hash = h] : q \in Queries, h \in 0..1}
  \cup {[NoUrl EXCEPT !.path = 1], NoUrl}

InitUrl ==
  /\ NoCrawl
  /\ argv = NoArgv
  /\ manifest = NoManifest
  /\ urls \in UrlStrings \X UrlStrings
  /\ normalized = <<>>

\* normalizeUrl is called on both strings
Normalize ==
  /\ normalized = <<>>
  /\ normalized' = <<normalizeUrl(urls[1]), normalizeUrl(urls[2])>>
  /\ UNCHANGED <<CrawlVars, argv, manifest, urls>>

\* normalizeUrl is called on its own results (as addUrl does at line 225
\* with the link crawlPage normalized at line 608)
NormalizeAgain ==
  /\ Len(normalized) = 2
  /\ normalized' = normalized \o <<normalizeUrl(normalized[1]),
                                   normalizeUrl(normalized[2])>>
  /\ UNCHANGED <<CrawlVars, argv, manifest, urls>>

\* state.addUrl is called on one of the strings
Enqueue ==
  /\ \E i \in 1..2 : state' = addUrl(state, urls[i], NoUrl, 0)
  /\ UNCHANGED <<pc, runs, Config, disk, pool, glob, micro, workers,
                 loadResult, PageVars, ToolVars>>

NextUrl ==
  \/ Normalize
  \/ NormalizeAgain
  \/ Enqueue

SpecUrl == InitUrl /\ [][NextUrl]_vars

\* A finite site whose pages may link to each other, fail, or redirect to
\* the login page; the browser stays connected, no signal, no kill.
NextSite ==
  \/ MainStart
  \/ LaunchDone
  \/ MainResume
  \/ MainFinish
  \/ RunMicrotask
  \/ NewPageResolve
  \/ GotoOk
  \/ GotoLogin
  \/ AuthOk
  \/ AuthFail
  \/ OutcomeSuccess
  \/ Outcome404
  \/ OutcomeHttpError
  \/ OutcomeThrow
  \/ ClosePage
  \/ AgeCeiling

\* an awaited call of a fetch in flight returns or throws
FetchStep ==
  \/ NewPageResolve
  \/ GotoOk
  \/ GotoLogin
  \/ AuthOk
  \/ AuthFail
  \/ OutcomeSuccess
  \/ Outcome404
  \/ OutcomeHttpError
  \/ OutcomeThrow
  \/ ClosePage

\* the event loop runs every pending continuation; every fetch comes to an
\* outcome (navigation and the waits of the login flow have timeouts)
SiteFairness ==
  /\ WF_vars(MainStart)
  /\ WF_vars(LaunchDone)
  /\ WF_vars(MainResume)
  /\ WF_vars(MainFinish)
  /\ WF_vars(RunMicrotask)
  /\ WF_vars(FetchStep)

SpecSite == Init /\ [][NextSite]_vars /\ SiteFairness

\* authenticateEPFL of the fetch w saw the MFA texts (line 345) and awaits
\* page.waitForNavigation with its 120 s timeout (line 355)
MfaWaitAt(w) ==
  /\ AtWorker(w, "auth")
  /\ pool.browser = "connected"
  /\ workers' = (workers (-) One(w)) (+) One([w EXCEPT !.pc = "mfa"])
  /\ UNCHANGED <<pc, runs, Config, Elsewhere, state, disk, pool, glob, micro, loadResult>>

\* the navigation of the approval completed, or the 120 s passed and the
\* catch of line 356 logged it: the flow goes on at line 360
MfaEndAt(w) ==
  /\ AtWorker(w, "mfa")
  /\ workers' = (workers (-) One(w)) (+) One([w EXCEPT !.pc = "auth"])
  /\ UNCHANGED <<pc, runs, Config, Elsewhere, state, disk, pool, glob, micro, loadResult>>

MfaWait == \E w \in Workers : MfaWaitAt(w)
MfaEnd == \E w \in Workers : MfaEndAt(w)

\* the site of SpecSite with the second factor asked for
NextMfa ==
  \/ MainStart
  \/ LaunchDone
  \/ MainResume
  \/ MainFinish
  \/ RunMicrotask
  \/ NewPageResolve
  \/ GotoOk
  \/ GotoLogin
  \/ MfaWait
  \/ MfaEnd
  \/ AuthOk
  \/ AuthFail
  \/ OutcomeSuccess
  \/ Outcome404
  \/ OutcomeHttpError
  \/ OutcomeThrow
  \/ ClosePage
  \/ AgeCeiling

SpecMfa == Init /\ [][NextMfa]_vars

\* ------------------------------------------------ a site with fixed links
\* Page i of the site carries the anchors Page(j), j in Site[i]: the two
\* roots 1 and 2 both link to 3, the chain 1 - 3 - 4 is as long as maxDepth,
\* 5 is found from 2 and from 4 and links back to 1.
Site == << <<3>>, <<3, 5>>, <<4>>, <<5>>, <<1>> >>

\* what extractLinksFromPage returns on page u of the site
linksOf(u) == [k \in 1..Len(Site[u.path]) |-> Page(Site[u.path][k])]

\* the crawler is configured for this site, with a page cap above its size
\* config.crawling.maxPages: below the number of roots, or the whole site
GraphCaps == {1, Len(Site)}

InitGraph ==
  /\ pc = "boot"
  /\ runs = 1
  /\ concurrency \in 1..MaxConcurrency
  /\ rootUrls = <<Page(1), Page(2)>>
  /\ pageCap \in GraphCaps
  /\ state = EmptyState
  /\ disk = MissingFile
  /\ pool = NewPool
  /\ glob = NewGlob
  /\ micro = <<>>
  /\ workers = EmptyBag
  /\ loadResult = "none"
  /\ NoPageFetch
  /\ NoTools

OutcomeSuccessLinked ==
  \E w \in Workers : OutcomeSuccessAt(w, linksOf(w.entry.url))

\* the pages of the site answer, with 200 or 404, or the fetch throws; the
\* process may be killed and started again
NextGraph ==
  \/ MainStart
  \/ LaunchDone
  \/ MainResume
  \/ MainFinish
  \/ RunMicrotask
  \/ NewPageResolve
  \/ GotoOk
  \/ OutcomeSuccessLinked
  \/ Outcome404
  \/ OutcomeThrow
  \/ ClosePage
  \/ Kill
  \/ Restart

SpecGraph == InitGraph /\ [][NextGraph]_vars

\* ================================================================ claims
\* number of suspended processNext invocations of ws whose position is in pcs
NumAt(ws, pcs) ==
  LET hit == {wk \in BagToSet(ws) : wk.pc \in pcs} IN
  BagCardinality([wk \in hit |-> ws[wk]])
InCrawlPagePcs == {"newPage", "goto", "auth", "extract", "closing"}
InCrawlPage == NumAt(workers, InCrawlPagePcs)
Range(f) == {f[i] : i \in DOMAIN f}

\* C1: in every snapshot written by CrawlerState.save no URL is both in
\* visited and in toVisit.
C1_SnapshotDisjoint ==
  disk.kind = "state" =>
    load(disk).visited \cap QueuedUrls(load(disk)) = {}

\* C2: a run that starts from a loaded snapshot with an empty frontier and a
\* non-empty visited set fetches nothing, its run() promise is resolved once
\* run() has returned, and visited and failed are as loaded.
C2_DrainedResumeCompletes ==
  (loadResult = "drained" /\ pc \in {"running", "closeBrowser", "done"}) =>
    /\ pool.resolved
    /\ workers = EmptyBag
    /\ state.visited = load(disk).visited
    /\ state.failed = load(disk).failed

\* C3: with N root entries (N within the page cap) whose fetches all succeed
\* and find no link, every interleaving ends in done with exactly the N
\* entries visited and nothing left in the frontier.
C3_AllFetched ==
  /\ [](pc = "done" /\ Len(rootUrls) <= maxPages =>
          /\ state.visited = Range(rootUrls)
          /\ Cardinality(state.visited) = Len(rootUrls)
          /\ state.toVisit = <<>>)
  /\ <>(pc = "done")

C3_Witness ==
  /\ pc = "done"
  /\ concurrency = MaxConcurrency
  /\ Len(rootUrls) = maxPages
  /\ Cardinality(state.visited) = Len(rootUrls)

\* C4: the fetches in flight never outnumber the pool width, and
\* activeCrawlers is exactly the number of processNext invocations that have
\* been started and have not yet left (so it stays within 0..width).
C4_BoundedPool ==
  /\ InCrawlPage <= concurrency
  /\ pool.activeCrawlers \in 0..concurrency
  /\ pool.activeCrawlers = Len(micro) + BagCardinality(workers)

C4_Witness ==
  /\ concurrency = MaxConcurrency
  /\ pool.activeCrawlers = concurrency
  /\ NumAt(workers, {"extract"}) = concurrency

\* C5: the state file is never a partially written or empty document.
C5_FileAlwaysComplete == disk.kind # "partial"

\* C6: a missing state file gives an empty state (seeded with the roots); a
\* present but unreadable one stops the run, with the file left as it was.
C6_FailFastOnCorrupt ==
  /\ (loadResult = "missing" /\ pc = "launching") =>
        state = addAll(EmptyState, rootUrls, NoUrl, 0)
  /\ loadResult = "corrupt" =>
        /\ pc \notin {"launching", "running", "closeBrowser", "done"}
        /\ disk.kind = "partial"

\* C7: once crawlPage has recorded the outcome of its page, the state file
\* holds that outcome (before crawlPage returns).
C7_OutcomeOnDisk ==
  \A wk \in Workers :
    wk.pc = "closing" =>
      /\ disk.kind = "state"
      /\ wk.outcome = "visited" => wk.entry.url \in load(disk).visited
      /\ wk.outcome = "failed" => wk.entry.url \in FailedUrls(load(disk))

\* C8: a fetch is dispatched with no other fetch in flight only when no
\* browser restart is due: a due restart is performed first.
C8_RestartBeforeDispatch ==
  [][ (/\ InCrawlPage = 0
       /\ NumAt(workers', {"newPage"}) > NumAt(workers, {"newPage"}))
      => ~needsBrowserRestart(pool, glob) ]_vars

\* C9: launchBrowser never runs while a crawlPage call is in flight.
C9_NoLaunchDuringFetch == Launchers # {} => InCrawlPage = 0

C9_Witness ==
  /\ pc = "launching"
  /\ runs = 2
  /\ loadResult = "loaded"
  /\ Len(state.toVisit) > 0

\* fetches of entry e that have not yet come to an outcome
Fetching(ws, e) ==
  CopiesIn([pc |-> "newPage", entry |-> e, outcome |-> "none"], ws) +
  CopiesIn([pc |-> "goto", entry |-> e, outcome |-> "none"], ws) +
  CopiesIn([pc |-> "auth", entry |-> e, outcome |-> "none"], ws) +
  CopiesIn([pc |-> "extract", entry |-> e, outcome |-> "none"], ws)

\* C10: once shouldStop is set nothing more is dequeued or dispatched, every
\* fetch in flight ends with its URL recorded in visited or failed, the run's
\* promise is resolved as soon as no processNext is left, and the final
\* state is on disk when main is done.
C10_GracefulStop ==
  /\ [][ (pool.shouldStop /\ pc' # "dead") =>
           /\ Len(state'.toVisit) >= Len(state.toVisit)
           /\ NumAt(workers', {"newPage"}) <= NumAt(workers, {"newPage"}) ]_vars
  /\ [][ (pool.shouldStop /\ pc' # "dead") =>
           \A wk \in Workers :
             Fetching(workers', wk.entry) < Fetching(workers, wk.entry)
               => wk.entry.url \in state'.visited \cup FailedUrls(state') ]_vars
  /\ []((pool.shouldStop /\ pc = "running" /\ pool.activeCrawlers = 0 /\ micro = <<>>)
          => pool.resolved)
  /\ []((pool.shouldStop /\ pc = "done") => disk = save(state))

\* C11: the run is reported finished (finalizeRun has run) only with no
\* processNext left, started or suspended, so with no fetch in flight, and
\* with the frontier empty or a stop requested (by a signal or the page cap).
C11_FinishOnlyWhenIdle ==
  pool.finalizing =>
    /\ pool.activeCrawlers = 0
    /\ workers = EmptyBag
    /\ micro = <<>>
    /\ (Len(state.toVisit) = 0 \/ pool.shouldStop)

C11_Witness ==
  /\ pc = "running"
  /\ pool.finalizing
  /\ pool.resolved
  /\ ~pool.shouldStop
  /\ Cardinality(state.visited) = NumPages

\* C12: on a finite site where every fetch comes to an outcome, with the
\* browser connected and no stop requested (neither by a signal nor by the
\* page cap), the run started from the seeded frontier ends: main is done,
\* the frontier is empty and no worker is active.
C12_RunDrains ==
  <>(\/ pool.shouldStop
     \/ /\ pc = "done"
        /\ state.toVisit = <<>>
        /\ pool.activeCrawlers = 0)

C12_Witness ==
  /\ pc = "done"
  /\ ~pool.shouldStop
  /\ state.toVisit = <<>>
  /\ concurrency = MaxConcurrency
  /\ Cardinality(state.visited) = NumPages
  /\ state.failed # {}

\* C13: a fetch answered with status 404 records the URL in failed (with the
\* 404 error and the referrer of the entry), leaves visited and the frontier
\* as they were and writes nothing into the page's artifact directory.
C13_NotFound ==
  page.status = 404 =>
    /\ [url |-> page.entry.url, error |-> "404 Not Found",
        referrer |-> page.entry.referrer] \in state.failed
    /\ state.visited = page.before.visited
    /\ state.toVisit = page.before.toVisit
    /\ files = NoFiles

C13_Witness ==
  /\ page.pc = "returned"
  /\ page.status = 404
  /\ page.before.toVisit # <<>>
  /\ page.entry.url \in FailedUrls(state)

\* a fetch whose error was caught and which has not yet returned
FailedClosing(wk) == wk.pc = "closing" /\ wk.outcome = "failed"

LastFile(dir, url) ==
  LET at == {i \in 1..Len(dir.files) : dir.files[i].url = url}
  IN dir.files[CHOOSE i \in at : \A j \in at : j <= i]
UrlsOf(dir) ==
  IF dir.exists THEN {f.url : f \in {g \in Range(dir.files) : g.url.valid}}
  ELSE {}
EntriesOf(m, url) == {i \in 1..Len(m.pages) : m.pages[i].url = url}

\* the reference rule of the claim for a URL of old or new
Reference(old, new, url) ==
  IF url \notin UrlsOf(old)
  THEN [status |-> "added", reason |-> "", reindex |-> TRUE]
  ELSE IF url \notin UrlsOf(new)
  THEN [status |-> "removed", reason |-> "", reindex |-> FALSE]
  ELSE LET o == LastFile(old, url).contentHash
           n == LastFile(new, url).contentHash
       IN IF o = 0 \/ n = 0
          THEN [status |-> "changed", reason |-> "no_hash_available",
                reindex |-> TRUE]
          ELSE IF o # n
          THEN [status |-> "changed", reason |-> "", reindex |-> TRUE]
          ELSE [status |-> "unchanged", reason |-> "", reindex |-> FALSE]

\* C15: for every pair of trees the manifest holds, for each URL of old or
\* new, exactly one entry, whose status, reason and reindex flag are those
\* of the reference rule (added / changed with no_hash_available / changed /
\* unchanged / removed; reindex exactly for added and changed), and no
\* entry for any other URL.
C15_ManifestRule ==
  manifest.written =>
    LET old == argv.oldDir
        new == argv.newDir
    IN /\ \A url \in UrlsOf(old) \cup UrlsOf(new) :
            /\ Cardinality(EntriesOf(manifest, url)) = 1
            /\ \A i \in EntriesOf(manifest, url) :
                 LET e == manifest.pages[i]
                 IN /\ [status |-> e.status, reason |-> e.reason,
                        reindex |-> e.reindex] = Reference(old, new, url)
                    /\ e.reindex <=> e.status \in {"added", "changed"}
       /\ \A i \in 1..Len(manifest.pages) :
            manifest.pages[i].url \in UrlsOf(old) \cup UrlsOf(new)

C15_Witness ==
  /\ manifest.written
  /\ manifest.summary.removed > 0
  /\ \E i \in 1..Len(manifest.pages) :
       manifest.pages[i].reason = "no_hash_available"

\* C16: the manifest of a tree against itself has only unchanged entries
\* and summary.changed = summary.added = summary.removed = 0, also for the
\* trees crawlPage writes (metadata.json without contentHash).
C16_SelfDiffUnchanged ==
  (manifest.written /\ argv.oldDir = argv.newDir) =>
    /\ \A i \in 1..Len(manifest.pages) :
         manifest.pages[i].status = "unchanged"
    /\ manifest.summary.changed = 0
    /\ manifest.summary.added = 0
    /\ manifest.summary.removed = 0

\* C17: with an old tree that does not exist or holds no page, the manifest
\* has exactly one entry per URL of the new tree, each added with reindex
\* true, and summary.added is the number of URLs, the other counts 0.
C17_AllAdded ==
  (manifest.written /\ UrlsOf(argv.oldDir) = {}) =>
    /\ \A url \in UrlsOf(argv.newDir) :
         Cardinality(EntriesOf(manifest, url)) = 1
    /\ Len(manifest.pages) = Cardinality(UrlsOf(argv.newDir))
    /\ \A i \in 1..Len(manifest.pages) :
         /\ manifest.pages[i].status = "added"
         /\ manifest.pages[i].reindex
    /\ manifest.summary =
         [NoSummary EXCEPT !.added = Cardinality(UrlsOf(argv.newDir))]

C17_Witness ==
  /\ manifest.written
  /\ ~argv.oldDir.exists
  /\ manifest.summary.added = NumPages
  /\ Len(manifest.pages) = NumPages

\* the number of times pair kv occurs in query q
Occurrences(q, kv) == Cardinality({i \in 1..Len(q) : q[i] = kv})

\* two URL strings that differ at most in their fragment and in the order
\* of their query parameters
SameButFragmentAndOrder(u, v) ==
  /\ u.valid /\ v.valid
  /\ [u EXCEPT !.hash = 0, !.query = <<>>] = [v EXCEPT !.hash = 0, !.query = <<>>]
  /\ Len(u.query) = Len(v.query)
  /\ \A kv \in Params : Occurrences(u.query, kv) = Occurrences(v.query, kv)

\* C18: normalizeUrl gives the same result for two URLs that differ only in
\* fragment or parameter order (parameters of the same name with different
\* values included), and normalizing a result again changes nothing.
C18_Canonical ==
  /\ Len(normalized) >= 2 =>
       (SameButFragmentAndOrder(urls[1], urls[2])
          => normalized[1] = normalized[2])
  /\ Len(normalized) = 4 =>
       (normalized[3] = normalized[1] /\ normalized[4] = normalized[2])

\* the rules of the URL policy, applied to a crawl URL
MatchesExclusionRule(u) == u.ext \in {"jpg", "mp4", "mp3"} \/ u.logout
HasDocumentExtension(u) == u.ext = "pdf"
Crawlable(l) ==
  /\ normalizeUrl(l).scope = "root"
  /\ ~MatchesExclusionRule(normalizeUrl(l))
  /\ ~HasDocumentExtension(l)

\* C19: after one successful fetch of page P at depth d (below the maximum
\* depth) from an empty state, with every download answered, the frontier
\* holds exactly the links of P, other than P itself, that are under a root
\* prefix, match no exclusion rule and are not downloadable, once each, at
\* depth d + 1 with referrer P; and every downloadable link of P, in scope
\* or not, was downloaded into the artifact directory of P.
C19_OneFetch ==
  (/\ page.outcome = "visited"
   /\ page.before = EmptyState
   /\ page.entry.depth < maxDepth
   /\ \A i \in 1..Len(page.attempts) : page.attempts[i].outcome = "ok")
  =>
  LET P == page.entry.url
      links == {l \in Range(page.allLinks) : Crawlable(l) /\ normalizeUrl(l) # P}
      expected == {[url |-> normalizeUrl(l), referrer |-> P,
                    depth |-> page.entry.depth + 1] : l \in links}
  IN /\ Range(state.toVisit) = expected
     /\ Len(state.toVisit) = Cardinality(expected)
     /\ \A l \in Range(page.allLinks) :
          HasDocumentExtension(l) =>
            [name |-> getSafeFileName(l), complete |-> TRUE] \in files.docs

\* C20: no entry of the frontier has a document extension or matches an
\* exclusion rule (media extension, logout path), whatever the page that
\* was fetched links to.
C20_NeverEnqueued ==
  \A i \in 1..Len(state.toVisit) :
    /\ ~HasDocumentExtension(state.toVisit[i].url)
    /\ ~MatchesExclusionRule(state.toVisit[i].url)


\* C21: a download that ends with another status than 200 or with the
\* request timeout returns failure (no entry in downloadedFiles), leaves no
\* partial file in the page's directory, and each document link of the page
\* is attempted once, in order.
C21_FailedDownload ==
  /\ Len(page.downloadedFiles) =
       Cardinality({i \in 1..Len(page.attempts) : page.attempts[i].outcome = "ok"})
  /\ \A f \in files.docs : f.complete
  /\ Len(page.attempts) <= Len(page.documentLinks)
  /\ \A i \in 1..Len(page.attempts) :
       page.attempts[i].url = page.documentLinks[i]


\* C22: authenticateEPFL has returned only if the wait for "on the target
\* domain and not on a login URL" returned with the page on such a URL, or
\* the logged-in markers were found at entry; every other end of the flow is
\* a failure: the page is recorded in failed and nothing of it is fetched.
C22_AuthOutcome ==
  /\ InAuth("done") =>
       \/ page.auth.isAlreadyLoggedIn
       \/ page.auth.checkedAt \in {"requested", "epfl"}
  /\ (page.auth.pc \notin {"none", "done"} /\ ~At("auth")) =>
       /\ page.outcome = "failed"
       /\ [url |-> page.entry.url, error |-> "authentication",
           referrer |-> page.entry.referrer] \in state.failed
       /\ page.entry.url \notin state.visited \ page.before.visited
       /\ files = NoFiles

C22_Witness ==
  /\ InAuth("done")
  /\ ~page.auth.isAlreadyLoggedIn
  /\ page.auth.checkedAt = "epfl"
  /\ page.auth.loc = "requested"


\* C23: a string that is not a URL is dropped by addUrl: the frontier never
\* holds an entry whose URL cannot be parsed.
C23_MalformedDropped ==
  \A i \in 1..Len(state.toVisit) : state.toVisit[i].url.valid


\* q2 is q without its oldest entry or with it (at most one entry left, and
\* it was the oldest), the others in their order, followed by the new ones
KeepsOrder(q, q2) ==
  \E k \in 0..1 :
    /\ k <= Len(q)
    /\ Len(q2) >= Len(q) - k
    /\ SubSeq(q2, 1, Len(q) - k) = SubSeq(q, k + 1, Len(q))

\* C24: the frontier is served in the order of enqueueing: every step of a
\* running process removes at most the oldest entry and puts new entries
\* behind all older ones; the roots are enqueued in their configured order;
\* a snapshot holds the entries in the order of the frontier, and a process
\* that loads it starts with the frontier in that order.
C24_Fifo ==
  /\ [][ (pc # "boot" /\ pc' # "dead")
           => KeepsOrder(state.toVisit, state'.toVisit) ]_vars
  /\ [][ (pc = "boot" /\ pc' = "launching")
           => state'.toVisit =
                IF disk.kind = "state" /\ ~mustSeed(load(disk))
                THEN load(disk).toVisit
                ELSE [i \in 1..Len(rootUrls) |->
                        [url |-> rootUrls[i], referrer |-> NoUrl, depth |-> 0]] ]_vars
  /\ [][ (disk' # disk /\ disk'.kind = "state")
           => load(disk').toVisit = state'.toVisit ]_vars

C24_Witness ==
  /\ runs = 2
  /\ loadResult = "loaded"
  /\ disk.kind = "state"
  /\ Len(load(disk).toVisit) >= 2
  /\ state.toVisit = Tail(load(disk).toVisit)
  /\ \E wk \in Workers : wk.entry = Head(load(disk).toVisit)


\* C25: the depths of the entries dequeued in one run never decrease.  Stated
\* on the fetches still in flight: when an entry is dequeued, no fetch that
\* was dispatched earlier in this run and has not yet returned has a greater
\* depth.
C25_BreadthFirst ==
  [][ (pc # "boot" /\ pc' # "dead" /\ Len(state'.toVisit) < Len(state.toVisit))
        => \A wk \in Workers :
             wk.pc \in InCrawlPagePcs
               => wk.entry.depth <= Head(state.toVisit).depth ]_vars


\* the fetch of worker wk settles as visited in this step
SettlesVisited(wk) ==
  /\ wk.pc = "extract"
  /\ workers' = (workers (-) One(wk)) (+)
                One([wk EXCEPT !.pc = "closing", !.outcome = "visited"])

C27_DistinctInFlight ==
  \A wk \in Workers :
    wk.pc \in InCrawlPagePcs =>
      /\ workers[wk] = 1
      /\ \A other \in Workers :
           (other.pc \in InCrawlPagePcs /\ other.entry.url = wk.entry.url)
             => other = wk


\* the entries of q2 that are not those of q (q2 is q, or q without its
\* oldest entry, followed by new ones)
Arrived(q, q2) ==
  {q2[i] : i \in {j \in 1..Len(q2) : \A k \in 1..Len(q) : q[k] # q2[j]}}

\* C28: in a run seeded with the roots at depth 0, the entries a page adds
\* to the frontier have the depth of the page plus one and the page as
\* referrer, a page at the maximum depth adds none, and every entry of the
\* frontier and every entry that was dispatched has a depth of at most
\* maxDepth.
C28_DepthBound ==
  /\ [][ \A wk \in Workers :
           SettlesVisited(wk) =>
             /\ \A e \in Arrived(state.toVisit, state'.toVisit) :
                  e.depth = wk.entry.depth + 1 /\ e.referrer = wk.entry.url
             /\ wk.entry.depth >= maxDepth => state'.toVisit = state.toVisit ]_vars
  /\ [](\A i \in 1..Len(state.toVisit) : state.toVisit[i].depth \in 0..maxDepth)
  /\ [](\A wk \in Workers :
          wk.pc \in InCrawlPagePcs => wk.entry.depth \in 0..maxDepth)

C28_Witness ==
  /\ \E wk \in Workers :
       /\ wk.pc = "closing" /\ wk.outcome = "visited"
       /\ wk.entry.url = Page(4) /\ wk.entry.depth = maxDepth
  /\ Page(5) \notin state.visited \cup QueuedUrls(state)
  /\ \A wk \in Workers : wk.entry.url # Page(5)


\* the fetch of worker wk settles as failed in this step
SettlesFailed(wk) ==
  /\ wk.pc \in {"goto", "auth", "extract"}
  /\ workers' = (workers (-) One(wk)) (+)
                One([wk EXCEPT !.pc = "closing", !.outcome = "failed"])

\* C29: a link to a URL that is recorded in failed (and is neither visited
\* nor queued) is enqueued like any other link; failed holds at most one
\* record per URL; and when a fetch fails, the record of its URL is the one
\* of this attempt (its referrer), the records of the other URLs unchanged.
C29_FailedNotBlocking ==
  /\ [][ \A wk \in Workers :
           (SettlesVisited(wk) /\ wk.entry.depth < maxDepth) =>
             \A l \in Range(linksOf(wk.entry.url)) :
               (l \in FailedUrls(state) /\ l \notin state'.visited)
                 => l \in QueuedUrls(state') ]_vars
  /\ [](Cardinality(FailedUrls(state)) = Cardinality(state.failed))
  /\ [][ \A wk \in Workers :
           SettlesFailed(wk) =>
             /\ \E f \in state'.failed :
                  f.url = wk.entry.url /\ f.referrer = wk.entry.referrer
             /\ {f \in state'.failed : f.url # wk.entry.url} =
                {f \in state.failed : f.url # wk.entry.url} ]_vars

C29_Witness ==
  /\ [url |-> Page(1), error |-> "404 Not Found", referrer |-> NoUrl] \in state.failed
  /\ \E wk \in Workers :
       /\ wk.pc = "goto"
       /\ wk.entry = [url |-> Page(1), referrer |-> Page(5), depth |-> 2]


\* the downloads of a page that came back with a file name
Downloaded(attempts) ==
  LET ok == SelectSeq(attempts, LAMBDA a : a.outcome = "ok")
  IN [i \in 1..Len(ok) |-> [fileName |-> getSafeFileName(ok[i].url),
                            originalUrl |-> ok[i].url]]

\* C30: a document download that fails leaves the page fetch running and the
\* crawl state untouched; a page fetched with failed downloads is marked
\* visited, its metadata.json lists exactly the downloads that succeeded, in
\* order, and each of its HTML links that is not visited is in the frontier
\* (when the page is above the depth bound).
C30_DownloadFailureLocal ==
  /\ [][ ( /\ At("download")
           /\ Len(page'.attempts) = Len(page.attempts) + 1
           /\ page'.attempts[Len(page'.attempts)].outcome # "ok" )
         => /\ page'.pc \in {"download", "title"}
            /\ page'.outcome = "none"
            /\ state' = state ]_vars
  /\ []( ( /\ page.outcome = "visited"
           /\ \E i \in 1..Len(page.attempts) : page.attempts[i].outcome # "ok" )
         => /\ page.entry.url \in state.visited
            /\ Len(files.metadata) = 1
            /\ files.metadata[1].downloadedDocuments = Downloaded(page.attempts)
            /\ \A i \in 1..Len(page.htmlLinks) :
                 LET n == normalizeUrl(page.htmlLinks[i])
                 IN (page.entry.depth < maxDepth /\ n \notin state.visited)
                      => n \in QueuedUrls(state) )

C30_Witness ==
  /\ page.pc = "returned"
  /\ page.outcome = "visited"
  /\ \E i \in 1..Len(page.attempts) : page.attempts[i].outcome = "timeout"
  /\ files.metadata # <<>>
  /\ page.htmlLinks # <<>>
  /\ Len(state.toVisit) > Len(page.before.toVisit)


\* a step of the Microsoft part of the flow found its element absent
AbsentStep ==
  /\ At("auth")
  /\ page.auth.pc \in MicrosoftSteps
  /\ page' # page
  /\ page'.auth.last = "absent"

\* C31: when the e-mail field, the password field, the second-factor texts
\* or the stay-signed-in button is absent, the flow is still running, on the
\* same URL, at the next step, and nothing was recorded; a failure that
\* comes later is one of the next awaited call (the lookup of the password
\* field), of the final wait or of the navigation back to the page; and a
\* flow that returned after an absent step passed the final wait.
C31_AbsenceNotFatal ==
  /\ [][ AbsentStep =>
           /\ page'.pc = "auth"
           /\ page'.outcome = "none"
           /\ page'.auth.loc = page.auth.loc
           /\ page'.auth.pc = afterMicrosoftStep(page.auth.pc, page.auth.loc)
           /\ state' = state ]_vars
  /\ [][ (At("auth") /\ page.auth.last = "absent" /\ page'.outcome = "failed")
           => page.auth.pc \in {"password", "check", "back"} ]_vars
  /\ []( (InAuth("done") /\ page.auth.last = "absent")
           => page.auth.checkedAt \in {"requested", "epfl"} )

C31_Witness ==
  /\ InAuth("done")
  /\ page.auth.last = "absent"
  /\ ~page.auth.caught
  /\ page.auth.checkedAt = "requested"


\* the Tequila step failed: #username did not appear, or no login button was
\* clicked with a completed navigation
TequilaFailed ==
  /\ InAuth("tequila")
  /\ page' # page
  /\ page'.auth.last \in {"nofield", "nobutton"}

\* C33: when the Tequila step fails, authenticateEPFL throws: the fetch is
\* over with the page recorded in failed (an authentication error, with its
\* referrer), it is not visited, nothing of it is written, and the flow did
\* not go on to the Microsoft steps.
C33_TequilaFailure ==
  [][ TequilaFailed =>
        /\ page'.pc = "closing"
        /\ page'.outcome = "failed"
        /\ page'.auth.pc = "tequila"
        /\ [url |-> page.entry.url, error |-> "authentication",
            referrer |-> page.entry.referrer] \in state'.failed
        /\ state'.visited = state.visited
        /\ disk' = save(state')
        /\ files' = NoFiles ]_vars

C33_Witness ==
  /\ page.pc = "returned"
  /\ page.outcome = "failed"
  /\ page.auth.pc = "tequila"
  /\ page.auth.last = "nobutton"
  /\ page.entry.url \in FailedUrls(state)


\* C34: a flow in which a started step timed out or raised a navigation
\* error (the submit of the e-mail or of the password, the wait for the
\* second-factor approval, the stay-signed-in click) never returns normally.
C34_TimeoutFails ==
  InAuth("done") => ~page.auth.caught


\* the fetches that wait for the approval of the second factor
MfaWaiting(ws) == NumAt(ws, {"mfa"})

\* C32: while a fetch waits for the approval of the second factor (and the
\* wait does not end in this step), no other fetch takes a step, none is
\* dispatched, and the crawl state does not change.
C32_MfaBlocksRun ==
  [][ (MfaWaiting(workers) > 0 /\ MfaWaiting(workers') >= MfaWaiting(workers))
        => (workers' = workers /\ state' = state) ]_vars


\* C35: the state that load() builds from the file save() wrote is the state
\* that was saved: the same visited set, the same frontier entries (URL,
\* referrer, depth) in the same order, the same failed records.
C35_SaveLoadRoundTrip ==
  load(save(state)) = state

C35_Witness ==
  /\ disk = save(state)
  /\ load(disk) = state
  /\ Cardinality(state.visited) >= 2
  /\ Len(state.toVisit) >= 2
  /\ state.toVisit[1].depth # state.toVisit[2].depth
  /\ state.failed # {}


\* C36: an entry is never dequeued for a fetch when its URL is in visited,
\* and a fetch never settles as visited on a URL that is in visited already.
C36_FetchedOnce ==
  /\ [][ (pc # "boot" /\ pc' # "dead" /\ Len(state'.toVisit) < Len(state.toVisit))
           => Head(state.toVisit).url \notin state.visited ]_vars
  /\ [][ \A wk \in Workers :
           SettlesVisited(wk) => wk.entry.url \notin state.visited ]_vars


\* the URLs of the fetches that processNext has dequeued and that have not
\* returned
InFlightUrls == {wk.entry.url : wk \in {w \in Workers : w.pc \in InCrawlPagePcs}}

\* C37: every URL that is or was in the frontier during this run is in
\* visited, in the frontier, in failed, or held by a fetch in flight.
C37_NothingDropped ==
  [][ (pc' # "dead" /\ pc' # "boot") =>
        \A u \in QueuedUrls(state) \cup InFlightUrls :
          u \in state'.visited \cup QueuedUrls(state') \cup FailedUrls(state')
                \cup InFlightUrls' ]_vars


\* the entries of manifest m with the given status
WithStatus(m, status) == {i \in 1..Len(m.pages) : m.pages[i].status = status}

\* C38: in every manifest each URL of the old or the new tree has exactly
\* one entry, each summary count is the number of entries of its status,
\* added + changed + unchanged is the number of URLs of the new tree and
\* removed the number of URLs that are only in the old tree.
C38_SummaryCounts ==
  manifest.written =>
    LET old == UrlsOf(argv.oldDir)
        new == UrlsOf(argv.newDir)
        sum == manifest.summary
    IN /\ \A url \in old \cup new : Cardinality(EntriesOf(manifest, url)) = 1
       /\ Len(manifest.pages) = Cardinality(old \cup new)
       /\ \A status \in DOMAIN NoSummary :
            sum[status] = Cardinality(WithStatus(manifest, status))
       /\ sum.added + sum.changed + sum.unchanged = Cardinality(new)
       /\ sum.removed = Cardinality(old \ new)

C38_Witness ==
  /\ manifest.written
  /\ Len(argv.newDir.files) = 2
  /\ Cardinality(UrlsOf(argv.newDir)) = 1
  /\ manifest.summary.changed = 1
  /\ manifest.summary.removed = 1
  /\ Len(manifest.pages) = 2


\* C39: when a run has ended, no URL is both in visited and in failed.
C39_VisitedNotFailed ==
  pc = "done" => state.visited \cap FailedUrls(state) = {}


\* C40: the number of visited pages never exceeds maxPages.
C40_PageCap ==
  Cardinality(state.visited) <= pageCap

====
